---- MODULE Spec2Model ----
(***************************************************************************)
(* Model of middleware.py: the layered authorization chain.                *)
(*                                                                         *)
(* A host calls the class-only entry point process_request on a layer      *)
(* type with a request and a response.  Every statement of process_request,*)
(* _init, authorize and the delegate methods that touches class-level      *)
(* state is one step of the calling request's thread; a request's call     *)
(* stack is the sequence frames[r].  Spec is the sequential host (one      *)
(* call at a time), ConcSpec the host that serves requests concurrently,   *)
(* StackSpec the sequential host that also supplies a stacked layer of its *)
(* own, and BundleSpec the construction of error bundles.                  *)
(***************************************************************************)
EXTENDS Naturals, Sequences, FiniteSets

\* ---------------------------------------------------------------- bounds
MaxStack == 2
MaxKeys == 5
NumRequests == 2
MaxCalls == 3

Requests == 1..NumRequests

\* ------------------------------------------------------- the class graph
Layers ==
  {"AuthMiddleWare", "StackedAuthMiddleWare", "ViewAuthMiddleWare", "IdentityAuthMiddleWare"}

Authorizers == {"Authenticator", "SafeMethodOnlyAuthorizer", "APIAuthorizer"}

\* A layer of the host's own: a subclass of StackedAuthMiddleWare that
\* supplies process and a STACKED_MIDDLEWARES list, and nothing else.
HostLayers == {"HostStackedMiddleWare"}
AllLayers == Layers \cup HostLayers

VARIABLE host_stack   \* the STACKED_MIDDLEWARES list of the host's layer

\* Method resolution order of each layer class (class statements, lines 12, 111, 137, 148).
MRO(cls) ==
  CASE cls = "AuthMiddleWare" -> <<"AuthMiddleWare">>
    [] cls = "StackedAuthMiddleWare" -> <<"StackedAuthMiddleWare", "AuthMiddleWare">>
    [] cls = "ViewAuthMiddleWare" -> <<"ViewAuthMiddleWare", "AuthMiddleWare">>
    [] cls = "IdentityAuthMiddleWare" ->
         <<"IdentityAuthMiddleWare", "StackedAuthMiddleWare", "AuthMiddleWare">>
    [] cls = "HostStackedMiddleWare" ->
         <<"HostStackedMiddleWare", "StackedAuthMiddleWare", "AuthMiddleWare">>

\* The names each class body binds itself.
ClassDict(cls) ==
  CASE cls = "AuthMiddleWare" ->
         {"_metaclass_", "ERROR_BUNDLE_KEYS", "AUTH_CLASSES", "process", "delegate"}
    [] cls = "StackedAuthMiddleWare" -> {"_metaclass_", "STACKED_MIDDLEWARES", "delegate"}
    [] cls = "ViewAuthMiddleWare" -> {"AUTH_CLASSES", "process", "delegate"}
    [] cls = "IdentityAuthMiddleWare" ->
         {"AUTH_CLASSES", "STACKED_MIDDLEWARES", "process", "delegate"}
    [] cls = "HostStackedMiddleWare" -> {"STACKED_MIDDLEWARES", "process"}

\* The class along cls's MRO that supplies attribute name.
Resolve(cls, name) ==
  LET mro == MRO(cls)
      k == CHOOSE i \in 1..Len(mro) :
             /\ name \in ClassDict(mro[i])
             /\ \A j \in 1..(i - 1) : name \notin ClassDict(mro[j])
  IN mro[k]

\* The methods decorated with abc.abstractmethod that cls does not override.
abstractmethods(cls) ==
  {m \in {"process", "delegate"} : Resolve(cls, m) = "AuthMiddleWare"}

\* The metaclass of a layer class.  Lines 17 and 118 bind the ordinary class
\* attribute _metaclass_; no class statement names a metaclass, so every
\* layer class is an instance of type and abc.ABCMeta never sees it.
metaclass(cls) == "type"

\* inspect.isabstract(cls): the abstract flag that ABCMeta sets on a class
\* with unresolved abstract methods.
isabstract(cls) == metaclass(cls) = "ABCMeta" /\ abstractmethods(cls) # {}

\* line 24 with the third key named as the comment of line 22 names it
ERROR_BUNDLE_KEYS_comment == <<"middleware_stack", "layer", "authorizer", "request_dump">>

\* line 24
ERROR_BUNDLE_KEYS == <<"middleware_stack", "layer", "authorizer_error", "request_dump">>

\* The class bodies' AUTH_CLASSES lists, before _init touches them.
AuthorizerType(a) == [kind |-> "type", of |-> a, id |-> 0]
AuthorizerInstance(a, n) == [kind |-> "instance", of |-> a, id |-> n]

AUTH_CLASSES_0(owner) ==
  CASE owner = "AuthMiddleWare" -> <<>>
    [] owner = "ViewAuthMiddleWare" ->
         <<AuthorizerType("SafeMethodOnlyAuthorizer"), AuthorizerType("APIAuthorizer")>>
    [] owner = "IdentityAuthMiddleWare" -> <<AuthorizerType("Authenticator")>>

AuthClassOwners == {c \in Layers : "AUTH_CLASSES" \in ClassDict(c)}

STACKED_MIDDLEWARES(owner) ==
  CASE owner = "StackedAuthMiddleWare" -> <<>>
    [] owner = "IdentityAuthMiddleWare" -> <<"ViewAuthMiddleWare">>
    [] owner = "HostStackedMiddleWare" -> host_stack

\* ------------------------------------------------ collaborators' values
\* settings.SAFE_CODES and the codes an authorizer may answer with.
Codes == {200, 401}
SAFE_CODES == {200}
\* settings.AUTH['TOKEN_HEADER']
TOKEN_HEADER == "TOKEN_HEADER"

Tokens == <<"tokenA", "tokenB", "tokenC", "tokenD">>

\* Python values handed around as responses.
None == [kind |-> "None", of |-> 0, arg |-> "none"]
Pending == [kind |-> "pending", of |-> 0, arg |-> "none"]
\* the response dict the host passed with request r (its content is response[r])
ResponseOf(r) == [kind |-> "response", of |-> r, arg |-> "none"]
\* router.route(request, response): the router's own result object, which
\* remembers the request and the kind of response it was handed
route(r, resp) == [kind |-> "routed", of |-> r, arg |-> resp.kind]

Missing == "missing"

\* A request nobody has built yet, and the request dict the host builds.
NoRequest ==
  [keys |-> {}, middleware_stack |-> <<>>, TOKEN_HEADER |-> <<>>,
   requesting_authentication |-> FALSE]
NewRequest(r, flag) ==
  [keys |-> {TOKEN_HEADER}, middleware_stack |-> <<>>,
   TOKEN_HEADER |-> <<"Token", Tokens[r]>>, requesting_authentication |-> flag]

\* utils.RequestOp.appendParam(request, key, value): append to the list
\* under key, creating the list when the key is absent.
appendParam(req, key, value) ==
  IF key \in req.keys
    THEN [req EXCEPT ![key] = Append(@, value)]
    ELSE [req EXCEPT !.keys = @ \cup {key}, ![key] = <<value>>]

\* Authenticator.is_requesting_authentication(request)
is_requesting_authentication(req) == req.requesting_authentication

NoAuthorizerError == <<>>
NoBundle ==
  [middleware_stack |-> <<>>, layer |-> "none", authorizer_error |-> NoAuthorizerError,
   request_dump |-> 0]
ImproperBundle ==
  [middleware_stack |-> <<>>, layer |-> "improper", authorizer_error |-> NoAuthorizerError,
   request_dump |-> 0]

\* CustomError.bundle(keys, *values): the mapping of the keys to the values,
\* refused when the field set is not the four required keys in order.
bundle(keys, values) ==
  IF keys = <<"middleware_stack", "layer", "authorizer_error", "request_dump">>
     /\ Len(values) = Len(keys)
    THEN [middleware_stack |-> values[1], layer |-> values[2],
          authorizer_error |-> values[3], request_dump |-> values[4]]
    ELSE ImproperBundle

NoError == [kind |-> "none", bundle |-> NoBundle]
Error(kind, b) ==
  IF b = ImproperBundle THEN [kind |-> "ImproperErrorBundleDump", bundle |-> NoBundle]
                        ELSE [kind |-> kind, bundle |-> b]

\* ----------------------------------------------------------------- state
VARIABLES
  _instance,      \* per layer class: its own _instance attribute
  AUTH_CLASSES,   \* per owning class: the AUTH_CLASSES list object
  request,        \* per request: the request dict
  response,       \* per request: the content of the response dict the host passed
  frames,         \* per request: the call stack of process_request activations
  result,         \* per request: what the outermost process_request returned
  error,          \* per request: the exception that left the outermost process_request
  created,        \* per layer class: how many instances cls() has made
  instantiated,   \* per authorizer type: how many times _auth() has made an instance
  entered,        \* per request: the layer types process_request was invoked on, in order
  call,           \* per request: the layer of the current outermost call and the trace length before it
  authorized_log, \* per request: the authorizer answers of the current outermost call
  routed,         \* per request: how often the current outermost call invoked route
  ncalls,         \* how many calls the host has made
  stacked_log,    \* per request: the stacked delegations of the current outermost call
  bundle_keys,    \* the key list last handed to CustomError.bundle by a caller
  bundle_out      \* what that construction gave

vars ==
  <<_instance, AUTH_CLASSES, request, response, frames, result, error, created,
    instantiated, entered, call, authorized_log, routed, ncalls, stacked_log,
    host_stack, bundle_keys, bundle_out>>

Unset == [cls |-> "unset", id |-> 0]
NoneInstance == [cls |-> "None", id |-> 0]
NoEntry == [kind |-> "none", of |-> "none", id |-> 0]

ChainInit ==
  /\ _instance = [c \in AllLayers |-> Unset]
  /\ AUTH_CLASSES = [c \in AuthClassOwners |-> AUTH_CLASSES_0(c)]
  /\ request = [r \in Requests |-> NoRequest]
  /\ response = [r \in Requests |-> [k \in {TOKEN_HEADER} |-> Missing]]
  /\ frames = [r \in Requests |-> <<>>]
  /\ result = [r \in Requests |-> Pending]
  /\ error = [r \in Requests |-> NoError]
  /\ created = [c \in AllLayers |-> 0]
  /\ instantiated = [a \in Authorizers |-> 0]
  /\ entered = [r \in Requests |-> <<>>]
  /\ call = [r \in Requests |-> [layer |-> "none", base |-> 0]]
  /\ authorized_log = [r \in Requests |-> <<>>]
  /\ routed = [r \in Requests |-> 0]
  /\ ncalls = 0
  /\ stacked_log = [r \in Requests |-> <<>>]

NoBundleCall ==
  /\ bundle_keys = <<>>
  /\ bundle_out = NoBundle

Init ==
  /\ ChainInit
  /\ host_stack = <<>>
  /\ NoBundleCall

\* ------------------------------------------------------------- helpers
Frame(cls, resp) ==
  [cls |-> cls, pc |-> "appendParam", self |-> NoneInstance, i |-> 0, auth |-> NoEntry,
   response |-> resp]

Active(r) == frames[r] # <<>>
Top(r) == frames[r][Len(frames[r])]
At(r, pc) == Active(r) /\ Top(r).pc = pc
SetTop(r, f) == [frames EXCEPT ![r] = [@ EXCEPT ![Len(@)] = f]]

\* hasattr(cls, '_instance') and cls._instance: class attribute lookup
\* walks the MRO, so a class without an attribute of its own sees the one
\* of a base class.
hasattr_instance(cls) == \E i \in 1..Len(MRO(cls)) : _instance[MRO(cls)[i]] # Unset
getattr_instance(cls) ==
  LET mro == MRO(cls)
      k == CHOOSE i \in 1..Len(mro) :
             /\ _instance[mro[i]] # Unset
             /\ \A j \in 1..(i - 1) : _instance[mro[j]] = Unset
  IN _instance[mro[k]]

\* self._get_authorizers(): the AUTH_CLASSES list that self's class resolves to
AuthOwner(self) == Resolve(self.cls, "AUTH_CLASSES")
_get_authorizers(self) == AUTH_CLASSES[AuthOwner(self)]
\* self._get_stacked_middlewares()
_get_stacked_middlewares(self) ==
  STACKED_MIDDLEWARES(Resolve(self.cls, "STACKED_MIDDLEWARES"))

\* line 44 with a trace that lists a layer once
process_request_append_once(req, cls) ==
  IF "middleware_stack" \in req.keys /\ \E i \in 1..Len(req.middleware_stack) :
                                          req.middleware_stack[i] = cls
    THEN req
    ELSE appendParam(req, "middleware_stack", cls)

\* line 44 with an assignment in place of the append
process_request_append_assign(req, cls) ==
  [req EXCEPT !.keys = @ \cup {"middleware_stack"}, !.middleware_stack = <<cls>>]

\* line 44: the entry point's first statement
process_request_append(req, cls) == appendParam(req, "middleware_stack", cls)

\* line 68 without its "not"
authorized_safe_inverted(authorized) == authorized[1] \notin SAFE_CODES

\* line 68 testing the answer against every code an authorizer can give
authorized_safe_any(authorized) == authorized[1] \in Codes

\* line 68: the test on an authorizer's answer (authorized[0] in SAFE_CODES)
authorized_safe(authorized) == authorized[1] \in SAFE_CODES

\* lines 69-70 naming the outermost layer of the trace
authorize_bundle_outermost(self, req, authorized, r) ==
  bundle(ERROR_BUNDLE_KEYS, <<req.middleware_stack, req.middleware_stack[1], authorized, r>>)

\* lines 69-70: the bundle of the AuthError that authorize raises
authorize_bundle(self, req, authorized, r) ==
  bundle(ERROR_BUNDLE_KEYS, <<req.middleware_stack, self.cls, authorized, r>>)

\* line 48: the bundle of the AbstractMiddlewareError
abstract_bundle(cls, req, r) ==
  bundle(ERROR_BUNDLE_KEYS, <<req.middleware_stack, cls, NoAuthorizerError, r>>)

\* line 159 with index 0
delegate_token_first(req) == req[TOKEN_HEADER][1]

\* line 159: the value stored under the token header (request[header][1])
delegate_token(req) == req[TOKEN_HEADER][2]

\* line 159 moved ahead of the test of line 157
delegate_writes_token_always(req) == TRUE

\* lines 157-159: the token header is written only inside the branch of a
\* request that asks for authentication
delegate_writes_token(req) == is_requesting_authentication(req)

\* line 129 without the assignment
delegate_assign_dropped(resp, returned) == resp

\* line 129: response = s_mw.process_request(request, response)
delegate_assign(resp, returned) == returned

\* lines 128-129 with the call of the sub-layer in a try block whose
\* handler goes on to the next sub-layer
Raise_caught(r, e) ==
  /\ frames' = [frames EXCEPT ![r] =
       IF Len(@) > 1
         THEN Append(SubSeq(@, 1, Len(@) - 2), [@[Len(@) - 1] EXCEPT !.pc = "delegate_for"])
         ELSE <<>>]
  /\ error' = [error EXCEPT ![r] = e]
  /\ UNCHANGED result

\* An exception leaves every activation of the request's thread: nothing
\* in the module catches.
Raise(r, e) ==
  /\ frames' = [frames EXCEPT ![r] = <<>>]
  /\ error' = [error EXCEPT ![r] = e]
  /\ UNCHANGED result

\* The record kept of one step of a stacked delegate running in the
\* activation at the given depth: index 0 is the entry of the delegate
\* with the response it was handed, index i the call of the i-th
\* sub-layer with the response passed to it and, once it returned, the
\* response it gave.
Delegation(depth, index, self, layer, passed) ==
  [depth |-> depth, index |-> index, self |-> self.cls, layer |-> layer,
   passed |-> passed, returned |-> Pending]

\* the latest step recorded for the activation at the given depth
LatestAt(log, depth) ==
  CHOOSE j \in 1..Len(log) :
    /\ log[j].depth = depth
    /\ \A k \in (j + 1)..Len(log) : log[k].depth # depth

\* return v from the innermost process_request
Return(r, v) ==
  /\ IF Len(frames[r]) = 1
       THEN /\ frames' = [frames EXCEPT ![r] = <<>>]
            /\ result' = [result EXCEPT ![r] = v]
            /\ UNCHANGED stacked_log
       ELSE /\ LET n == Len(frames[r])
                   caller == frames[r][n - 1]
               IN /\ frames' = [frames EXCEPT ![r] =
                       Append(SubSeq(@, 1, n - 2),
                              [caller EXCEPT !.response = delegate_assign(@, v),
                                             !.pc = "delegate_for"])]
                  /\ stacked_log' = [stacked_log EXCEPT
                       ![r][LatestAt(stacked_log[r], n - 1)].returned = v]
            /\ UNCHANGED result
  /\ UNCHANGED error

Goto(r, pc) == frames' = SetTop(r, [Top(r) EXCEPT !.pc = pc])

\* what no statement of the chain writes
Fixed == UNCHANGED <<host_stack, bundle_keys, bundle_out>>

\* ------------------------------------------------------------- the host
LastUsed ==
  IF \E r \in Requests : request[r] # NoRequest
    THEN CHOOSE r \in Requests :
           request[r] # NoRequest /\ \A q \in Requests : request[q] # NoRequest => q <= r
    ELSE 0

\* The host builds request r if it is new, and calls
\* cls.process_request(request, response) with an empty response dict.
HostCall(r, cls, flag) ==
  /\ ~Active(r)
  /\ ncalls < MaxCalls
  /\ IF request[r] = NoRequest
       THEN request' = [request EXCEPT ![r] = NewRequest(r, flag)]
       ELSE flag = request[r].requesting_authentication /\ UNCHANGED request
  /\ response' = [response EXCEPT ![r] = [k \in {TOKEN_HEADER} |-> Missing]]
  /\ frames' = [frames EXCEPT ![r] = <<Frame(cls, ResponseOf(r))>>]
  /\ result' = [result EXCEPT ![r] = Pending]
  /\ error' = [error EXCEPT ![r] = NoError]
  /\ entered' = [entered EXCEPT ![r] = Append(@, cls)]
  /\ call' = [call EXCEPT ![r] = [layer |-> cls, base |-> Len(request[r].middleware_stack)]]
  /\ authorized_log' = [authorized_log EXCEPT ![r] = <<>>]
  /\ routed' = [routed EXCEPT ![r] = 0]
  /\ stacked_log' = [stacked_log EXCEPT ![r] = <<>>]
  /\ ncalls' = ncalls + 1
  /\ UNCHANGED <<_instance, AUTH_CLASSES, created, instantiated>>
  /\ Fixed

\* ------------------------------------------------------ process_request
\* line 44
AppendParam(r) ==
  /\ At(r, "appendParam")
  /\ request' = [request EXCEPT ![r] = process_request_append(@, Top(r).cls)]
  /\ Goto(r, "isabstract")
  /\ UNCHANGED <<_instance, AUTH_CLASSES, response, result, error, created, instantiated,
                 entered, call, authorized_log, routed, ncalls, stacked_log>>
  /\ Fixed

\* lines 46-48
CheckAbstract(r) ==
  /\ At(r, "isabstract")
  /\ IF isabstract(Top(r).cls)
       THEN Raise(r, Error("AbstractMiddlewareError",
                           abstract_bundle(Top(r).cls, request[r], r)))
       ELSE Goto(r, "hasattr") /\ UNCHANGED <<result, error>>
  /\ UNCHANGED <<_instance, AUTH_CLASSES, request, response, created, instantiated,
                 entered, call, authorized_log, routed, ncalls, stacked_log>>
  /\ Fixed

\* lines 49-50, taken as one step
EnsureInstanceAttr(r) ==
  /\ At(r, "hasattr")
  /\ _instance' = IF hasattr_instance(Top(r).cls)
                    THEN _instance
                    ELSE [_instance EXCEPT ![Top(r).cls] = NoneInstance]
  /\ Goto(r, "test_instance")
  /\ UNCHANGED <<AUTH_CLASSES, request, response, result, error, created, instantiated,
                 entered, call, authorized_log, routed, ncalls, stacked_log>>
  /\ Fixed

\* line 51
TestInstance(r) ==
  /\ At(r, "test_instance")
  /\ Goto(r, IF getattr_instance(Top(r).cls) = NoneInstance THEN "create" ELSE "authorize")
  /\ UNCHANGED <<_instance, AUTH_CLASSES, request, response, result, error, created,
                 instantiated, entered, call, authorized_log, routed, ncalls, stacked_log>>
  /\ Fixed

\* line 52
CreateInstance(r) ==
  /\ At(r, "create")
  /\ LET cls == Top(r).cls
     IN /\ created' = [created EXCEPT ![cls] = @ + 1]
        /\ _instance' = [_instance EXCEPT ![cls] = [cls |-> cls, id |-> created[cls] + 1]]
  /\ Goto(r, "init")
  /\ UNCHANGED <<AUTH_CLASSES, request, response, result, error, instantiated,
                 entered, call, authorized_log, routed, ncalls, stacked_log>>
  /\ Fixed

\* line 53: cls._instance._init() is entered
CallInit(r) ==
  /\ At(r, "init")
  /\ frames' = SetTop(r, [Top(r) EXCEPT !.self = getattr_instance(Top(r).cls),
                                        !.i = 0, !.pc = "init_for"])
  /\ UNCHANGED <<_instance, AUTH_CLASSES, request, response, result, error, created,
                 instantiated, entered, call, authorized_log, routed, ncalls, stacked_log>>
  /\ Fixed

\* line 93: enumerate hands out the next entry of self.AUTH_CLASSES
InitFor(r) ==
  /\ At(r, "init_for")
  /\ LET f == Top(r)
         list == _get_authorizers(f.self)
     IN frames' = SetTop(r,
          IF f.i < Len(list)
            THEN [f EXCEPT !.i = @ + 1, !.auth = list[f.i + 1], !.pc = "init_assign"]
            ELSE [f EXCEPT !.auth = NoEntry, !.pc = "authorize"])
  /\ UNCHANGED <<_instance, AUTH_CLASSES, request, response, result, error, created,
                 instantiated, entered, call, authorized_log, routed, ncalls, stacked_log>>
  /\ Fixed

\* line 94: self.AUTH_CLASSES[ii] = _auth().  Calling an authorizer type
\* makes an instance; an entry that already is an instance is not callable.
InitAssign(r) ==
  /\ At(r, "init_assign")
  /\ LET f == Top(r)
         a == f.auth.of
     IN IF f.auth.kind = "type"
          THEN /\ instantiated' = [instantiated EXCEPT ![a] = @ + 1]
               /\ AUTH_CLASSES' = [AUTH_CLASSES EXCEPT ![AuthOwner(f.self)][f.i] =
                                     AuthorizerInstance(a, instantiated[a] + 1)]
               /\ Goto(r, "init_for")
               /\ UNCHANGED <<result, error>>
          ELSE /\ Raise(r, Error("TypeError", NoBundle))
               /\ UNCHANGED <<instantiated, AUTH_CLASSES>>
  /\ UNCHANGED <<_instance, request, response, created, entered, call, authorized_log,
                 routed, ncalls, stacked_log>>
  /\ Fixed

\* line 56: cls._instance.authorize(request) is entered
CallAuthorize(r) ==
  /\ At(r, "authorize")
  /\ frames' = SetTop(r, [Top(r) EXCEPT !.self = getattr_instance(Top(r).cls),
                                        !.i = 0, !.pc = "authorize_for"])
  /\ UNCHANGED <<_instance, AUTH_CLASSES, request, response, result, error, created,
                 instantiated, entered, call, authorized_log, routed, ncalls, stacked_log>>
  /\ Fixed

\* lines 66-70: one turn of the loop over self._get_authorizers(); the
\* authorizer's answer is the collaborator's choice.  An entry that still
\* is a type has no bound authorize.
Authorize(r) ==
  /\ At(r, "authorize_for")
  /\ LET f == Top(r)
         list == _get_authorizers(f.self)
     IN IF f.i < Len(list)
          THEN LET authorizer == list[f.i + 1]
               IN IF authorizer.kind = "instance"
                    THEN \E code \in Codes :
                           LET authorized == <<code, authorizer.of>>
                           IN /\ authorized_log' = [authorized_log EXCEPT ![r] =
                                   Append(@, [layer |-> f.cls, depth |-> Len(frames[r]),
                                              index |-> f.i + 1,
                                              authorizer |-> authorizer.of,
                                              authorized |-> authorized])]
                              /\ IF authorized_safe(authorized)
                                   THEN /\ frames' = SetTop(r, [f EXCEPT !.i = @ + 1])
                                        /\ UNCHANGED <<result, error>>
                                   ELSE Raise(r, Error("AuthError",
                                          authorize_bundle(f.self, request[r], authorized, r)))
                    ELSE /\ Raise(r, Error("TypeError", NoBundle))
                         /\ UNCHANGED authorized_log
          ELSE /\ Goto(r, "process")
               /\ UNCHANGED <<result, error, authorized_log>>
  /\ UNCHANGED <<_instance, AUTH_CLASSES, request, response, created, instantiated,
                 entered, call, routed, ncalls, stacked_log>>
  /\ Fixed

\* line 58: cls._instance.process(request, response); every process of the
\* module (lines 79, 142, 154) only returns.
Process(r) ==
  /\ At(r, "process")
  /\ Goto(r, "delegate")
  /\ UNCHANGED <<_instance, AUTH_CLASSES, request, response, result, error, created,
                 instantiated, entered, call, authorized_log, routed, ncalls, stacked_log>>
  /\ Fixed

\* line 59 with AuthMiddleWare.delegate (lines 82-89): returns None
DelegateAbstract(r) ==
  /\ At(r, "delegate")
  /\ Resolve(getattr_instance(Top(r).cls).cls, "delegate") = "AuthMiddleWare"
  /\ Return(r, None)
  /\ UNCHANGED <<_instance, AUTH_CLASSES, request, response, created, instantiated,
                 entered, call, authorized_log, routed, ncalls>>
  /\ Fixed

\* line 59 with ViewAuthMiddleWare.delegate (lines 144-145)
DelegateView(r) ==
  /\ At(r, "delegate")
  /\ Resolve(getattr_instance(Top(r).cls).cls, "delegate") = "ViewAuthMiddleWare"
  /\ routed' = [routed EXCEPT ![r] = @ + 1]
  /\ Return(r, route(r, Top(r).response))
  /\ UNCHANGED <<_instance, AUTH_CLASSES, request, response, created, instantiated,
                 entered, call, authorized_log, ncalls>>
  /\ Fixed

\* line 59 with IdentityAuthMiddleWare.delegate (lines 156-161)
DelegateIdentity(r) ==
  /\ At(r, "delegate")
  /\ Resolve(getattr_instance(Top(r).cls).cls, "delegate") = "IdentityAuthMiddleWare"
  /\ LET f == Top(r)
         written == IF delegate_writes_token(request[r]) /\ f.response.kind = "response"
                      THEN [response EXCEPT ![f.response.of][TOKEN_HEADER] =
                              delegate_token(request[r])]
                      ELSE response
     IN IF is_requesting_authentication(request[r])
          THEN IF f.response.kind = "None"
                 THEN /\ Raise(r, Error("TypeError", NoBundle))
                      /\ UNCHANGED <<response, stacked_log>>
                 ELSE /\ response' = written
                      /\ Return(r, f.response)
          ELSE /\ frames' = SetTop(r, [f EXCEPT !.self = getattr_instance(f.cls),
                                                !.i = 0, !.pc = "delegate_for"])
               /\ stacked_log' = [stacked_log EXCEPT ![r] =
                    Append(@, Delegation(Len(frames[r]), 0, getattr_instance(f.cls),
                                         "none", f.response))]
               /\ response' = written
               /\ UNCHANGED <<result, error>>
  /\ UNCHANGED <<_instance, AUTH_CLASSES, request, created, instantiated,
                 entered, call, authorized_log, routed, ncalls>>
  /\ Fixed

\* line 59 with StackedAuthMiddleWare.delegate (lines 123-130) as the
\* delegate of the instance
DelegateStacked(r) ==
  /\ At(r, "delegate")
  /\ Resolve(getattr_instance(Top(r).cls).cls, "delegate") = "StackedAuthMiddleWare"
  /\ frames' = SetTop(r, [Top(r) EXCEPT !.self = getattr_instance(Top(r).cls),
                                        !.i = 0, !.pc = "delegate_for"])
  /\ stacked_log' = [stacked_log EXCEPT ![r] =
       Append(@, Delegation(Len(frames[r]), 0, getattr_instance(Top(r).cls),
                            "none", Top(r).response))]
  /\ UNCHANGED <<_instance, AUTH_CLASSES, request, response, result, error, created,
                 instantiated, entered, call, authorized_log, routed, ncalls>>
  /\ Fixed

\* lines 128-130: one turn of the loop over the stacked middlewares, or
\* the return of the last response
DelegateFor(r) ==
  /\ At(r, "delegate_for")
  /\ LET f == Top(r)
         stacked == _get_stacked_middlewares(f.self)
     IN IF f.i < Len(stacked)
          THEN /\ frames' = [frames EXCEPT ![r] =
                    Append(SetTop(r, [f EXCEPT !.i = @ + 1, !.pc = "delegate_wait"])[r],
                           Frame(stacked[f.i + 1], f.response))]
               /\ entered' = [entered EXCEPT ![r] = Append(@, stacked[f.i + 1])]
               /\ stacked_log' = [stacked_log EXCEPT ![r] =
                    Append(@, Delegation(Len(frames[r]), f.i + 1, f.self,
                                         stacked[f.i + 1], f.response))]
               /\ UNCHANGED <<result, error>>
          ELSE /\ Return(r, f.response)
               /\ UNCHANGED entered
  /\ UNCHANGED <<_instance, AUTH_CLASSES, request, response, created, instantiated,
                 call, authorized_log, routed, ncalls>>
  /\ Fixed

Step(r) ==
  \/ AppendParam(r)
  \/ CheckAbstract(r)
  \/ EnsureInstanceAttr(r)
  \/ TestInstance(r)
  \/ CreateInstance(r)
  \/ CallInit(r)
  \/ InitFor(r)
  \/ InitAssign(r)
  \/ CallAuthorize(r)
  \/ Authorize(r)
  \/ Process(r)
  \/ DelegateAbstract(r)
  \/ DelegateView(r)
  \/ DelegateIdentity(r)
  \/ DelegateStacked(r)
  \/ DelegateFor(r)

\* The sequential host: one call at a time, requests served one after the
\* other, each for any number of calls.
SeqCall(r, cls, flag) ==
  /\ \A q \in Requests : ~Active(q)
  /\ r \in {LastUsed, LastUsed + 1}
  /\ HostCall(r, cls, flag)

\* The concurrent host: every request is served by its own thread, which
\* enters the chain once; threads interleave between statements.
ConcCall(r, cls, flag) ==
  /\ r = LastUsed + 1
  /\ HostCall(r, cls, flag)

\* The host with a stacked layer of its own: it serves one request, by
\* calls on its layer and on the base type its layer extends.
StackCall(r, cls, flag) ==
  /\ r = 1
  /\ HostCall(r, cls, flag)

Next ==
  \/ \E r \in Requests, cls \in Layers, flag \in BOOLEAN : SeqCall(r, cls, flag)
  \/ \E r \in Requests : Step(r)

ConcNext ==
  \/ \E r \in Requests, cls \in Layers, flag \in BOOLEAN : ConcCall(r, cls, flag)
  \/ \E r \in Requests : Step(r)

StackNext ==
  \/ \E r \in Requests, cls \in HostLayers \cup {"AuthMiddleWare"}, flag \in BOOLEAN :
       StackCall(r, cls, flag)
  \/ \E r \in Requests : Step(r)

\* the lists of sub-layers the host may give its layer
HostStacks ==
  UNION {[1..n -> {"ViewAuthMiddleWare", "IdentityAuthMiddleWare"}] : n \in 0..MaxStack}

StackInit ==
  /\ ChainInit
  /\ host_stack \in HostStacks
  /\ NoBundleCall

\* CustomError.bundle(keys, *values) called once with any list of keys
BundleKeyNames ==
  {ERROR_BUNDLE_KEYS[i] : i \in 1..Len(ERROR_BUNDLE_KEYS)} \cup {"authorizer"}
BundleKeyLists == UNION {[1..n -> BundleKeyNames] : n \in 0..MaxKeys}
\* one value for every key, of the kinds the chain puts in a bundle
BundleValues(keys) ==
  [i \in 1..Len(keys) |->
     CASE i % 4 = 1 -> <<"ViewAuthMiddleWare">>
       [] i % 4 = 2 -> "ViewAuthMiddleWare"
       [] i % 4 = 3 -> NoAuthorizerError
       [] OTHER -> 1]
BundleInit ==
  /\ ChainInit
  /\ host_stack = <<>>
  /\ bundle_keys \in BundleKeyLists
  /\ bundle_out = NoBundle
Construct ==
  /\ bundle_out = NoBundle
  /\ bundle_out' = bundle(bundle_keys, BundleValues(bundle_keys))
  /\ UNCHANGED bundle_keys
  /\ UNCHANGED <<_instance, AUTH_CLASSES, request, response, frames, result, error,
                 created, instantiated, entered, call, authorized_log, routed, ncalls,
                 stacked_log, host_stack>>

BundleNext == Construct

Spec == Init /\ [][Next]_vars
ConcSpec == Init /\ [][ConcNext]_vars
StackSpec == StackInit /\ [][StackNext]_vars
BundleSpec == BundleInit /\ [][BundleNext]_vars

\* ---------------------------------------------------------- properties
IsPrefix(s, t) == Len(s) <= Len(t) /\ SubSeq(t, 1, Len(s)) = s
Last(s) == s[Len(s)]
Unsafe(e) == e.authorized[1] \notin SAFE_CODES
\* the part of the request's trace that the current outermost call wrote
CallTrace(r) ==
  SubSeq(request[r].middleware_stack, call[r].base + 1, Len(request[r].middleware_stack))
\* the authorizer list a layer type declares
Declared(layer) == AUTH_CLASSES_0(Resolve(layer, "AUTH_CLASSES"))
AbstractLayers == {c \in Layers : abstractmethods(c) # {}}
ConcreteLayers == Layers \ AbstractLayers
PastLazyInit ==
  {"authorize", "authorize_for", "process", "delegate", "delegate_for", "delegate_wait"}

\* C1: fail-fast authorization.  Within one outermost call the authorizers
\* of a layer are asked in the order of the layer's list, starting with the
\* first; an answer outside SAFE_CODES is the last answer any authorizer
\* gives: the call has failed with an AuthError carrying that answer, and
\* an AuthError is raised for no other reason.
C1_FailFast ==
  \A r \in Requests :
    LET log == authorized_log[r]
    IN /\ \A i \in 1..Len(log) :
            /\ log[i].index = IF i > 1 /\ log[i - 1].depth = log[i].depth
                                THEN log[i - 1].index + 1 ELSE 1
            /\ log[i].index <= Len(Declared(log[i].layer))
            /\ log[i].authorizer = Declared(log[i].layer)[log[i].index].of
            /\ Unsafe(log[i]) =>
                 /\ i = Len(log)
                 /\ ~Active(r)
                 /\ error[r].kind = "AuthError"
                 /\ error[r].bundle.authorizer_error = log[i].authorized
       /\ error[r].kind = "AuthError" => log # <<>> /\ Unsafe(Last(log))

\* a call failed at the first of the view layer's two authorizers
C1_Witness ==
  \E r \in Requests :
    /\ error[r].kind = "AuthError"
    /\ authorized_log[r] # <<>>
    /\ Last(authorized_log[r]).authorizer = "SafeMethodOnlyAuthorizer"
    /\ Len(Declared("ViewAuthMiddleWare")) = 2

\* C2: process_request on an abstract layer type (one that leaves process
\* or delegate abstract) fails with AbstractMiddlewareError before anything
\* else happens: no instance of an abstract type is ever created, no
\* activation on an abstract type gets past the abstract check, and a
\* finished outermost call on an abstract type has raised that error.
C2_AbstractEntryFails ==
  /\ \A c \in AbstractLayers : created[c] = 0
  /\ \A r \in Requests :
       /\ \A k \in 1..Len(frames[r]) :
            frames[r][k].cls \in AbstractLayers =>
              frames[r][k].pc \in {"appendParam", "isabstract"}
       /\ call[r].layer \in AbstractLayers /\ ~Active(r) =>
            error[r].kind = "AbstractMiddlewareError"

\* C3: one singleton per layer type.  No layer type is instantiated twice
\* and no authorizer type twice, and as soon as a call on a concrete layer
\* type T is past the lazy initialisation, T has been instantiated exactly
\* once and each authorizer of T's list exactly once.
C3_SingletonOncePerType ==
  /\ \A c \in Layers : created[c] <= 1
  /\ \A a \in Authorizers : instantiated[a] <= 1
  /\ \A r \in Requests : \A k \in 1..Len(frames[r]) :
       frames[r][k].cls \in ConcreteLayers /\ frames[r][k].pc \in PastLazyInit =>
         /\ created[frames[r][k].cls] = 1
         /\ \A i \in 1..Len(Declared(frames[r][k].cls)) :
              instantiated[Declared(frames[r][k].cls)[i].of] = 1

\* C4: every invocation of process_request appends exactly its layer type
\* to the request's middleware_stack as its first step: the trace is the
\* list of the layer types the entry point was invoked on, less only an
\* invocation that has not made its first step yet; so also after a failure.
C4_TraceAppendFirst ==
  \A r \in Requests :
    /\ request[r].middleware_stack =
         IF At(r, "appendParam")
           THEN SubSeq(entered[r], 1, Len(entered[r]) - 1)
           ELSE entered[r]
    /\ request[r].middleware_stack # <<>> => "middleware_stack" \in request[r].keys

\* a nested call failed with AuthError on a request used before
C4_Witness ==
  \E r \in Requests :
    /\ error[r].kind = "AuthError"
    /\ Len(CallTrace(r)) = 2
    /\ call[r].base > 0
    /\ request[r].middleware_stack = entered[r]

\* C5: scenario A.  In an outermost call on IdentityAuthMiddleWare in
\* which the Authenticator answered with a safe code, for a request that
\* is requesting authentication: the router is not invoked, the call wrote
\* only the identity layer to the trace, no error is raised, and the call
\* returns the response it was given with the request's token value under
\* the token header.
C5_ShortCircuit ==
  \A r \in Requests :
    (/\ call[r].layer = "IdentityAuthMiddleWare"
     /\ \E i \in 1..Len(authorized_log[r]) :
          /\ authorized_log[r][i].authorizer = "Authenticator"
          /\ ~Unsafe(authorized_log[r][i])
     /\ is_requesting_authentication(request[r]))
    => /\ routed[r] = 0
       /\ CallTrace(r) = <<"IdentityAuthMiddleWare">>
       /\ error[r] = NoError
       /\ ~Active(r) =>
            /\ result[r] = ResponseOf(r)
            /\ response[r][TOKEN_HEADER] = Tokens[r]

C5_Witness ==
  \E r \in Requests :
    /\ call[r].layer = "IdentityAuthMiddleWare"
    /\ authorized_log[r] # <<>>
    /\ is_requesting_authentication(request[r])
    /\ result[r] = ResponseOf(r)
    /\ response[r][TOKEN_HEADER] = Tokens[r]

\* C6: scenario B.  In an outermost call on IdentityAuthMiddleWare for a
\* request that is not requesting authentication, in which Authenticator,
\* SafeMethodOnlyAuthorizer and APIAuthorizer have all answered with safe
\* codes: the call entered the identity layer and then the view layer, no
\* error is raised, and the call returns exactly what route returned for
\* the request and the response, route having been invoked once.
C6_FallThrough ==
  \A r \in Requests :
    (/\ call[r].layer = "IdentityAuthMiddleWare"
     /\ ~is_requesting_authentication(request[r])
     /\ \A a \in Authorizers : \E i \in 1..Len(authorized_log[r]) :
          authorized_log[r][i].authorizer = a /\ ~Unsafe(authorized_log[r][i]))
    => /\ CallTrace(r) = <<"IdentityAuthMiddleWare", "ViewAuthMiddleWare">>
       /\ error[r] = NoError
       /\ routed[r] <= 1
       /\ ~Active(r) =>
            /\ routed[r] = 1
            /\ result[r] = route(r, ResponseOf(r))

C6_Witness ==
  \E r \in Requests :
    /\ call[r].layer = "IdentityAuthMiddleWare"
    /\ Len(authorized_log[r]) = 3
    /\ result[r] = route(r, ResponseOf(r))
    /\ routed[r] = 1

\* C7: scenario C.  When an authorizer of ViewAuthMiddleWare has answered
\* with an unsafe code, the call has failed with an AuthError whose bundle
\* names ViewAuthMiddleWare as layer, the failing (code, detail) pair as
\* authorizer_error, the request's trace as middleware_stack and the
\* request as request_dump.
C7_ViewAuthError ==
  \A r \in Requests : \A i \in 1..Len(authorized_log[r]) :
    (/\ \E j \in 1..Len(Declared("ViewAuthMiddleWare")) :
          Declared("ViewAuthMiddleWare")[j].of = authorized_log[r][i].authorizer
     /\ Unsafe(authorized_log[r][i]))
    => /\ error[r].kind = "AuthError"
       /\ error[r].bundle.layer = "ViewAuthMiddleWare"
       /\ error[r].bundle.authorizer_error = authorized_log[r][i].authorized
       /\ error[r].bundle.middleware_stack = request[r].middleware_stack
       /\ error[r].bundle.request_dump = r

\* the view layer failed inside a call that entered the identity layer
C7_Witness ==
  \E r \in Requests :
    /\ call[r].layer = "IdentityAuthMiddleWare"
    /\ error[r].kind = "AuthError"
    /\ error[r].bundle.layer = "ViewAuthMiddleWare"
    /\ Last(authorized_log[r]).authorizer = "APIAuthorizer"

\* C8: scenario D.  An outermost call on AuthMiddleWare with a fresh
\* request ends with AbstractMiddlewareError, the trace [AuthMiddleWare],
\* and a bundle whose layer is AuthMiddleWare and whose authorizer_error
\* is null.
C8_AbstractBaseEntry ==
  \A r \in Requests :
    (call[r].layer = "AuthMiddleWare" /\ Len(entered[r]) = 1 /\ ~Active(r))
    => /\ error[r].kind = "AbstractMiddlewareError"
       /\ request[r].middleware_stack = <<"AuthMiddleWare">>
       /\ error[r].bundle.layer = "AuthMiddleWare"
       /\ error[r].bundle.authorizer_error = NoAuthorizerError

\* C9: with requests entering concurrently, the shared state is written
\* once: no concrete layer type is instantiated twice and no authorizer
\* type of a layer's list is instantiated twice.
C9_InitialisedOnce ==
  /\ \A c \in ConcreteLayers : created[c] <= 1
  /\ \A a \in Authorizers : instantiated[a] <= 1

\* C10: a request's middleware_stack is only ever appended to, and it lists
\* the layer types in the order in which the entry point was invoked on
\* them: every step leaves the old trace a prefix of the new one, and the
\* new one a prefix of the list of the invocations.
C10_Step ==
  \A r \in Requests :
    /\ IsPrefix(request[r].middleware_stack, request'[r].middleware_stack)
    /\ request[r].keys \subseteq request'[r].keys
    /\ IsPrefix(request'[r].middleware_stack, entered'[r])

C10_TraceMonotone == [][C10_Step]_vars

\* a request whose trace holds an earlier call and a later nested call that
\* failed in the view layer
C10_Witness ==
  \E r \in Requests :
    /\ Len(request[r].middleware_stack) >= 3
    /\ call[r].base = 1
    /\ Len(CallTrace(r)) = 2
    /\ error[r].kind = "AuthError"

\* the latest step before position j recorded for the activation at depth d
\* (0 when there is none)
StepBefore(log, j, d) ==
  IF \E k \in 1..(j - 1) : log[k].depth = d
    THEN CHOOSE k \in 1..(j - 1) :
           /\ log[k].depth = d
           /\ \A m \in (k + 1)..(j - 1) : log[m].depth # d
    ELSE 0

\* the last step after position j of the stacked delegate that the
\* sub-layer called at position j ran itself (0 when it ran none)
LastStepUnder(log, j) ==
  LET d == log[j].depth
      end == IF \E m \in (j + 1)..Len(log) : log[m].depth <= d
               THEN (CHOOSE m \in (j + 1)..Len(log) :
                       /\ log[m].depth <= d
                       /\ \A n \in (j + 1)..(m - 1) : log[n].depth > d) - 1
               ELSE Len(log)
  IN IF \E k \in (j + 1)..end : log[k].depth = d + 1
       THEN CHOOSE k \in (j + 1)..end :
              /\ log[k].depth = d + 1
              /\ \A m \in (k + 1)..end : log[m].depth # d + 1
       ELSE 0

\* what a stacked delegate whose latest step is e gives back
Outcome(e) == IF e.index = 0 THEN e.passed ELSE e.returned

\* the sub-layers a log says were called, in order
CalledLayers(log) ==
  LET calls == SelectSeq(log, LAMBDA e : e.index > 0)
  IN [i \in 1..Len(calls) |-> calls[i].layer]

\* C11: a stacked delegate calls the sub-layers of its list in list order
\* through the entry point, hands the first the response it was given and
\* every later one the response the one before returned, and returns the
\* response of the last; with an empty list it returns the response it was
\* given.
C11_StackedDelegate ==
  \A r \in Requests :
    LET log == stacked_log[r]
    IN /\ \A j \in 1..Len(log) :
            LET e == log[j]
            IN IF e.index = 0
                 THEN e.passed = IF e.depth = 1
                                   THEN ResponseOf(r)
                                   ELSE log[StepBefore(log, j, e.depth - 1)].passed
                 ELSE LET p == log[StepBefore(log, j, e.depth)]
                      IN /\ p.self = e.self
                         /\ p.index = e.index - 1
                         /\ e.layer = _get_stacked_middlewares([cls |-> e.self])[e.index]
                         /\ e.passed = Outcome(p)
                         /\ Outcome(p) # Pending
                         /\ (e.returned # Pending /\ LastStepUnder(log, j) # 0)
                              => LET q == log[LastStepUnder(log, j)]
                                 IN /\ q.index = Len(_get_stacked_middlewares([cls |-> q.self]))
                                    /\ e.returned = Outcome(q)
       /\ request[r] # NoRequest
            => SubSeq(entered[r], call[r].base + 2, Len(entered[r])) = CalledLayers(log)
       /\ (~Active(r) /\ error[r] = NoError /\ log # <<>>)
            => LET l == log[LatestAt(log, 1)]
               IN /\ l.index = Len(_get_stacked_middlewares([cls |-> l.self]))
                  /\ result[r] = Outcome(l)

\* a stacked delegate with two sub-layers returned what the second gave it
C11_Witness ==
  \E r \in Requests :
    /\ ~Active(r)
    /\ error[r] = NoError
    /\ stacked_log[r] # <<>>
    /\ LET l == stacked_log[r][LatestAt(stacked_log[r], 1)]
       IN /\ l.index = 2
          /\ l.returned = result[r]
          /\ l.passed # ResponseOf(r)

AfterAuthorize == {"process", "delegate", "delegate_for", "delegate_wait"}

\* every authorizer the layer type declares has answered safe in the
\* activation at depth k of request r
AllAnsweredSafe(r, k, layer) ==
  \A i \in 1..Len(Declared(layer)) :
    \E j \in 1..Len(authorized_log[r]) :
      LET e == authorized_log[r][j]
      IN /\ e.depth = k
         /\ e.layer = layer
         /\ e.authorizer = Declared(layer)[i].of
         /\ ~Unsafe(e)

\* C13: within an entry of a concrete layer the trace append comes first,
\* process and delegate are reached only after every authorizer of that
\* layer has answered safe, and after an answer that is not safe no
\* statement of the entry runs any more.
C13_StepOrder ==
  \A r \in Requests :
    /\ \A k \in 1..Len(frames[r]) :
         LET f == frames[r][k]
         IN f.cls \in ConcreteLayers =>
              /\ f.pc # "appendParam" =>
                   /\ "middleware_stack" \in request[r].keys
                   /\ \E i \in 1..Len(CallTrace(r)) : CallTrace(r)[i] = f.cls
              /\ f.pc \in AfterAuthorize => AllAnsweredSafe(r, k, f.cls)
    /\ (authorized_log[r] # <<>> /\ Unsafe(Last(authorized_log[r]))) => ~Active(r)

\* the calls of the view layer as a sub-layer that have returned what the
\* router gave
RoutedCalls(log) ==
  {j \in 1..Len(log) : log[j].layer = "ViewAuthMiddleWare" /\ log[j].returned.kind = "routed"}

\* C14: an answer that is not safe, given while a sub-layer reached by
\* stacked delegation is authorized, ends the outermost call with the
\* AuthError of that sub-layer: the bundle is the one built at the failure,
\* no response is returned, the failing sub-layer is the last layer
\* entered, and the router has been invoked only for sub-layers that
\* returned before the failure.
C14_NoRecovery ==
  \A r \in Requests :
    (/\ authorized_log[r] # <<>>
     /\ Unsafe(Last(authorized_log[r]))
     /\ Last(authorized_log[r]).depth >= 2)
    => LET e == Last(authorized_log[r])
       IN /\ ~Active(r)
          /\ error[r].kind = "AuthError"
          /\ error[r].bundle.layer = e.layer
          /\ error[r].bundle.authorizer_error = e.authorized
          /\ error[r].bundle.middleware_stack = request[r].middleware_stack
          /\ result[r] = Pending
          /\ Last(entered[r]) = e.layer
          /\ Last(request[r].middleware_stack) = e.layer
          /\ \A d \in 1..(e.depth - 1) :
               LET l == stacked_log[r][LatestAt(stacked_log[r], d)]
               IN l.index > 0 /\ l.returned = Pending
          /\ routed[r] = Cardinality(RoutedCalls(stacked_log[r]))

\* the first of two sub-layers failed and the second was never entered
C14_Witness ==
  \E r \in Requests :
    /\ call[r].layer \in HostLayers
    /\ Len(host_stack) = 2
    /\ error[r].kind = "AuthError"
    /\ authorized_log[r] # <<>>
    /\ Last(authorized_log[r]).depth >= 2
    /\ stacked_log[r][LatestAt(stacked_log[r], 1)].index = 1
    /\ Len(entered[r]) - call[r].base <= 3

\* C15: the instance that authorizes, processes and delegates a call on a
\* concrete layer type T is an instance of T itself, whatever calls came
\* before: it iterates T's own authorizer list and runs T's own delegate.
C15_OwnInstance ==
  \A r \in Requests : \A k \in 1..Len(frames[r]) :
    LET f == frames[r][k]
    IN (f.cls \in ConcreteLayers /\ f.pc \in PastLazyInit) =>
         /\ getattr_instance(f.cls).cls = f.cls
         /\ f.self # NoneInstance => f.self.cls = f.cls
         /\ AuthOwner(getattr_instance(f.cls)) = Resolve(f.cls, "AUTH_CLASSES")
         /\ Resolve(getattr_instance(f.cls).cls, "delegate") = Resolve(f.cls, "delegate")

\* the authorizers that have answered in the current outermost call, in order
Answered(r) == [j \in 1..Len(authorized_log[r]) |-> authorized_log[r][j].authorizer]

\* C16: no route without authorization.  At the step that invokes
\* router.route, every authorizer of every layer that the traversal has
\* entered has already answered, and answered safe; in a traversal begun
\* on the identity layer these are Authenticator, SafeMethodOnlyAuthorizer
\* and APIAuthorizer in this order; and the router has not been invoked
\* before in the traversal.
C16_Step ==
  \A r \in Requests :
    routed'[r] > routed[r] =>
      /\ routed[r] = 0
      /\ \A j \in 1..Len(authorized_log[r]) : ~Unsafe(authorized_log[r][j])
      /\ \A k \in 1..Len(CallTrace(r)) :
           \A i \in 1..Len(Declared(CallTrace(r)[k])) :
             \E j \in 1..Len(authorized_log[r]) :
               /\ authorized_log[r][j].layer = CallTrace(r)[k]
               /\ authorized_log[r][j].depth = k
               /\ authorized_log[r][j].authorizer = Declared(CallTrace(r)[k])[i].of
      /\ call[r].layer = "IdentityAuthMiddleWare" =>
           Answered(r) = <<"Authenticator", "SafeMethodOnlyAuthorizer", "APIAuthorizer">>

C16_RouteAfterAuthorization == [][C16_Step]_vars

\* a traversal begun on the identity layer has reached the router
C16_Witness ==
  \E r \in Requests :
    /\ call[r].layer = "IdentityAuthMiddleWare"
    /\ routed[r] = 1
    /\ Len(authorized_log[r]) = 3
    /\ result[r].kind = "routed"

\* C17: no request is authorized against a partly initialised layer.
\* Whenever authorize runs for a call on a concrete layer type, the
\* singleton is in place and every entry of the authorizer list it iterates
\* is an authorizer instance, in every interleaving of concurrent entries.
C17_NoPartlyInitialised ==
  \A r \in Requests : \A k \in 1..Len(frames[r]) :
    LET f == frames[r][k]
    IN (f.cls \in ConcreteLayers /\ f.pc = "authorize_for") =>
         /\ f.self # NoneInstance
         /\ \A i \in 1..Len(_get_authorizers(f.self)) :
              _get_authorizers(f.self)[i].kind = "instance"

\* the response dict as the host handed it in
EmptyResponse == [k \in {TOKEN_HEADER} |-> Missing]

\* C18: a failed call leaves the response untouched.  When the outermost
\* call has failed with AuthError or AbstractMiddlewareError the response
\* dict is as the host handed it in; the request differs from the one the
\* host built only by its trace; and a response is written only by the
\* short-circuit of the identity layer, which stores the request's token
\* under the token header and returns that response.
C18_FailureLeavesResponse ==
  \A r \in Requests :
    /\ error[r].kind \in {"AuthError", "AbstractMiddlewareError"} =>
         response[r] = EmptyResponse
    /\ request[r] # NoRequest =>
         [request[r] EXCEPT !.middleware_stack = <<>>, !.keys = @ \ {"middleware_stack"}]
           = NewRequest(r, request[r].requesting_authentication)
    /\ response[r] # EmptyResponse =>
         /\ is_requesting_authentication(request[r])
         /\ response[r][TOKEN_HEADER] = delegate_token(request[r])
         /\ Last(CallTrace(r)) = "IdentityAuthMiddleWare"
         /\ result[r] = ResponseOf(r)
         /\ error[r] = NoError

\* a request that asks for a token was refused by the identity layer
C18_Witness ==
  \E r \in Requests :
    /\ error[r].kind = "AuthError"
    /\ error[r].bundle.layer = "IdentityAuthMiddleWare"
    /\ is_requesting_authentication(request[r])
    /\ call[r].base >= 1
    /\ response[r] = EmptyResponse

====
